---- MODULE Spec2Model ----
(***************************************************************************)
(* The Market account of the token-mill program (state/market_v1.rs): its  *)
(* fields, and one action per method.  Machine integers are scaled down so *)
(* that the state space is finite: a u64 is a number in 0..U64_MAX, and    *)
(* the protocol constants of constant.rs keep their relations (SCALE is a  *)
(* multiple of BASE_PRECISION, PRICES_LENGTH = INTERVAL_NUMBER + 1).       *)
(* A call ends "Ok", with a named error (Err), or "Panic" (a Rust panic:   *)
(* division by zero, index out of bounds, arithmetic overflow).            *)
(* A u128 intermediate is an unbounded integer: none of them comes near    *)
(* the width of a u128 for the amounts and prices drawn here.              *)
(***************************************************************************)
EXTENDS Integers, Sequences, FiniteSets, TLC

VARIABLES market, initialized, last

vars == <<market, initialized, last>>

\* ------------------------------------------------------------ constants
INTERVAL_NUMBER == 2
PRICES_LENGTH == INTERVAL_NUMBER + 1
BASE_PRECISION == 2
SCALE == 8
MAX_PRICE == 3
MAX_TOTAL_SUPPLY == 40000
MAX_BPS == 10000
\* the largest u64 of the scaled machine
U64_MAX == 65535
\* check_threshold_and_migrate's acceptance band and supply percentage
NET_SOL_MIN == 60000
NET_SOL_MAX == 63000
MIGRATION_PERCENT == 80

\* ------------------------------------------------------------ bounds
\* base amounts of swaps and quotes are drawn from 0..MaxBaseAmount
MaxBaseAmount == 7
\* add_airdrop is called while airdrop_ledger < MaxAirdrop
MaxAirdrop == 1
\* distribute_fee is called while both pending accumulators are <= MaxPending
MaxPending == 60

\* ------------------------------------------------------------ inputs
TotalSupplyInputs == {0, 2, 4, 5, 6, MAX_TOTAL_SUPPLY, MAX_TOTAL_SUPPLY + 1}
DecimalsInputs == {0, 2}
NetSolInputs == {NET_SOL_MIN - 1, NET_SOL_MIN, NET_SOL_MAX, NET_SOL_MAX + 1}
\* every legal price, and one above MAX_PRICE
PriceTables == [1..PRICES_LENGTH -> 0..(MAX_PRICE + 1)]
SwapFeeInputs == {0, 7, 1000}
CreatorShareInputs == {0, 500, 6000}
StakingShareInputs == {300, 6000}
ReferralShareInputs == {0, 2500}

Min(a, b) == IF a < b THEN a ELSE b

RECURSIVE Pow10(_)
Pow10(n) == IF n = 0 THEN 1 ELSE 10 * Pow10(n - 1)

\* ------------------------------------------------------------ math.rs
\* div(numerator, denominator, rounding) -> Result<u64>
div(numerator, denominator, rounding) ==
  IF denominator = 0 THEN [ok |-> FALSE, val |-> 0]
  ELSE LET q == numerator \div denominator
           r == numerator % denominator
           v == IF rounding = "Up" /\ r # 0 THEN q + 1 ELSE q
       IN IF v > U64_MAX THEN [ok |-> FALSE, val |-> 0]
          ELSE [ok |-> TRUE, val |-> v]

\* mul_div(a, b, c, rounding) -> Option<u128>, the product taken double-width
mul_div(a, b, c, rounding) ==
  IF c = 0 THEN [ok |-> FALSE, val |-> 0]
  ELSE LET q == (a * b) \div c
           r == (a * b) % c
       IN [ok |-> TRUE, val |-> IF rounding = "Up" /\ r # 0 THEN q + 1 ELSE q]

\* ------------------------------------------------------------ Market
ZeroPrices == [i \in 1..PRICES_LENGTH |-> 0]

\* a freshly allocated (zeroed) account
ZeroMarket ==
  [bump |-> 0, config |-> 0, creator |-> 0,
   base_token_mint |-> 0, quote_token_mint |-> 0,
   base_reserve |-> 0, bid_prices |-> ZeroPrices, ask_prices |-> ZeroPrices,
   width_scaled |-> 0, total_supply |-> 0,
   fees |-> [staking_fee_share |-> 0, creator_fee_share |-> 0,
             pending_staking_fees |-> 0, pending_creator_fees |-> 0,
             referral_fee_share |-> 0, referral_enabled |-> FALSE],
   quote_token_decimals |-> 0, airdrop_ledger |-> 0]

\* initialize: the arguments are a record a
initialize(m, a) ==
  IF \/ a.total_supply > MAX_TOTAL_SUPPLY
     \/ a.total_supply \div INTERVAL_NUMBER < BASE_PRECISION
     \/ (a.total_supply \div INTERVAL_NUMBER) * INTERVAL_NUMBER # a.total_supply
  THEN [res |-> "InvalidTotalSupply", market |-> m]
  ELSE LET m1 == [m EXCEPT !.bump = a.bump, !.config = a.config,
                           !.creator = a.creator,
                           !.base_token_mint = a.base_token_mint,
                           !.quote_token_mint = a.quote_token_mint,
                           !.quote_token_decimals = a.quote_token_decimals,
                           !.total_supply = a.total_supply,
                           !.base_reserve = a.total_supply]
           w == ((a.total_supply \div INTERVAL_NUMBER) * SCALE) \div BASE_PRECISION
       IN IF w > U64_MAX
          THEN [res |-> "TryFromIntError", market |-> m1]
          ELSE [res |-> "Ok",
                market |-> [m1 EXCEPT !.width_scaled = w,
                                      !.fees.creator_fee_share = a.creator_fee_share,
                                      !.fees.staking_fee_share = a.staking_fee_share,
                                      !.fees.referral_fee_share = a.referral_fee_share,
                                      !.fees.referral_enabled = TRUE,
                                      !.airdrop_ledger = 0]]

are_prices_set(m) == m.ask_prices[INTERVAL_NUMBER + 1] # 0

\* a mutant: equal consecutive prices pass
prices_decrease_strictly(bid, ask, i) == ask[i + 1] < ask[i] \/ bid[i + 1] < bid[i]

\* the test of consecutive prices, i >= 1 the 0-based index
prices_decrease(bid, ask, i) == ask[i + 1] <= ask[i] \/ bid[i + 1] <= bid[i]

\* the for loop of check_and_set_prices from index i (0-based, as in the code):
\* the first error met, or "Ok"
RECURSIVE check_prices_loop(_, _, _)
check_prices_loop(bid, ask, i) ==
  IF i >= PRICES_LENGTH THEN "Ok"
  ELSE IF bid[i + 1] > ask[i + 1] THEN "BidAskMismatch"
  ELSE IF i > 0 /\ prices_decrease(bid, ask, i) THEN "DecreasingPrices"
  ELSE check_prices_loop(bid, ask, i + 1)

\* a mutant: no PricesAlreadySet guard
check_and_set_prices_again(m, bid, ask) ==
  LET e == check_prices_loop(bid, ask, 0)
  IN IF e # "Ok" THEN [res |-> e, market |-> m]
     ELSE IF ask[INTERVAL_NUMBER + 1] > MAX_PRICE
          THEN [res |-> "PriceTooHigh", market |-> m]
     ELSE [res |-> "Ok",
           market |-> [m EXCEPT !.bid_prices = bid, !.ask_prices = ask]]

check_and_set_prices(m, bid, ask) ==
  IF are_prices_set(m) THEN [res |-> "PricesAlreadySet", market |-> m]
  ELSE LET e == check_prices_loop(bid, ask, 0)
       IN IF e # "Ok" THEN [res |-> e, market |-> m]
          ELSE IF ask[INTERVAL_NUMBER + 1] > MAX_PRICE
               THEN [res |-> "PriceTooHigh", market |-> m]
          ELSE [res |-> "Ok",
                market |-> [m EXCEPT !.bid_prices = bid, !.ask_prices = ask]]

circulating_supply(m) == m.total_supply - m.base_reserve

\* a mutant: the curves exchanged
price_curve_exchanged(m, swap_amount_type) ==
  IF swap_amount_type = "ExactInput" THEN m.ask_prices ELSE m.bid_prices

price_curve(m, swap_amount_type) ==
  IF swap_amount_type = "ExactInput" THEN m.bid_prices ELSE m.ask_prices

\* a mutant: the walk stops one interval early
walking_short(left, i) == left > 0 /\ i < PRICES_LENGTH - 1

\* the condition of the while loop
walking(left, i) == left > 0 /\ i < PRICES_LENGTH

\* the while loop of get_quote_amount_with_parameters; i is the 0-based index
\* of price_1, left is normalized_base_amount_left, acc is
\* normalized_quote_amount, used is interval_supply_already_used
RECURSIVE quote_loop(_, _, _, _, _, _, _)
quote_loop(m, curve, rounding, i, left, acc, used) ==
  IF walking(left, i)
  THEN LET price_0 == curve[i]
           price_1 == curve[i + 1]
           delta_base == Min(left, m.width_scaled - used)
           delta_quote ==
             mul_div(delta_base,
                     (price_1 - price_0) * (delta_base + 2 * used)
                       + 2 * price_0 * m.width_scaled,
                     2 * SCALE * m.width_scaled,
                     rounding)
       IN IF price_1 < price_0 THEN [res |-> "Panic", left |-> left, acc |-> acc]
          ELSE IF ~delta_quote.ok
               THEN [res |-> "MathError", left |-> left, acc |-> acc]
          ELSE quote_loop(m, curve, rounding, i + 1,
                          left - delta_base, acc + delta_quote.val, 0)
  ELSE [res |-> "Ok", left |-> left, acc |-> acc]

Failed(kind) == [res |-> kind, base |-> 0, quote |-> 0]

get_quote_amount_with_parameters(m, supply, base_amount, swap_amount_type, rounding) ==
  LET curve == price_curve(m, swap_amount_type)
      normalized_supply == (supply * SCALE) \div BASE_PRECISION
      normalized_base_amount == (base_amount * SCALE) \div BASE_PRECISION
  IN IF m.width_scaled = 0 THEN Failed("Panic")
     ELSE LET i == normalized_supply \div m.width_scaled
              used == normalized_supply % m.width_scaled
          IN IF i >= PRICES_LENGTH THEN Failed("Panic")
             ELSE LET w == quote_loop(m, curve, rounding, i + 1,
                                      normalized_base_amount, 0, used)
                      b == div(w.left * BASE_PRECISION, SCALE, rounding)
                      q == div(w.acc * Pow10(m.quote_token_decimals), SCALE, rounding)
                  IN IF w.res # "Ok" THEN Failed(w.res)
                     ELSE IF ~b.ok \/ ~q.ok THEN Failed("MathError")
                     ELSE [res |-> "Ok", base |-> base_amount - b.val,
                           quote |-> q.val]

\* circulating_supply - base_amount is a u64 subtraction: when it underflows
\* the call panics there, or wraps and panics on the price table's bounds.
get_quote_amount(m, base_amount, swap_amount_type) ==
  IF swap_amount_type = "ExactInput"
  THEN IF base_amount > circulating_supply(m) THEN Failed("Panic")
       ELSE get_quote_amount_with_parameters(
              m, circulating_supply(m) - base_amount, base_amount,
              "ExactInput", "Down")
  ELSE get_quote_amount_with_parameters(
         m, circulating_supply(m), base_amount, "ExactOutput", "Up")

lock_liquidity(m) == [m EXCEPT !.base_reserve = 0]

disable_bonding_curve(m) == [m EXCEPT !.width_scaled = 0]

migrate_to_raydium(m) ==
  [res |-> "Ok",
   market |-> [disable_bonding_curve(lock_liquidity(m))
                 EXCEPT !.fees.referral_enabled = FALSE]]

\* a mutant: the lower end of the band is refused
check_threshold_and_migrate_open(m, net_sol) ==
  IF net_sol <= NET_SOL_MIN \/ net_sol > NET_SOL_MAX
  THEN [res |-> "NetSOLThreshold", market |-> m]
  ELSE IF circulating_supply(m)
            >= (m.total_supply * MIGRATION_PERCENT) \div 100
       THEN migrate_to_raydium(m)
       ELSE [res |-> "Ok", market |-> m]

\* The receiver is declared &self while migrate_to_raydium takes &mut self:
\* the call is modelled as the mutation it makes.
check_threshold_and_migrate(m, net_sol) ==
  IF net_sol < NET_SOL_MIN \/ net_sol > NET_SOL_MAX
  THEN [res |-> "NetSOLThreshold", market |-> m]
  ELSE IF circulating_supply(m)
            >= (m.total_supply * MIGRATION_PERCENT) \div 100
       THEN migrate_to_raydium(m)
       ELSE [res |-> "Ok", market |-> m]

\* a mutant: the referral fee is taken with referrals disabled
referral_fee_always(m, swap_fee) ==
  (swap_fee * m.fees.referral_fee_share) \div MAX_BPS

referral_fee(m, swap_fee) ==
  IF m.fees.referral_enabled
  THEN (swap_fee * m.fees.referral_fee_share) \div MAX_BPS
  ELSE 0

\* distribute_fee: the set of outcomes.  protocol_fee = swap_fee - ... is a
\* u64 subtraction: when it underflows the build either panics or wraps.
distribute_fee(m, swap_fee) ==
  LET referral == referral_fee(m, swap_fee)
      creator_fee == (swap_fee * m.fees.creator_fee_share) \div MAX_BPS
      staking_fee == (swap_fee * m.fees.staking_fee_share) \div MAX_BPS
      diff == swap_fee - creator_fee - staking_fee - referral
      done(protocol_fee) ==
        [res |-> "Ok", creator_fee |-> creator_fee, staking_fee |-> staking_fee,
         protocol_fee |-> protocol_fee, referral_fee |-> referral,
         market |-> [m EXCEPT
            !.fees.pending_creator_fees = @ + creator_fee,
            !.fees.pending_staking_fees = @ + staking_fee]]
      panic == [res |-> "Panic", creator_fee |-> 0, staking_fee |-> 0,
                protocol_fee |-> 0, referral_fee |-> 0, market |-> m]
  IN IF diff < 0 THEN {panic, done(diff % (U64_MAX + 1))}
     ELSE IF \/ m.fees.pending_creator_fees + creator_fee > U64_MAX
             \/ m.fees.pending_staking_fees + staking_fee > U64_MAX
          THEN {panic}
     ELSE {done(diff)}

add_airdrop(m, amount) ==
  IF m.airdrop_ledger + amount > U64_MAX THEN [res |-> "Panic", market |-> m]
  ELSE [res |-> "Ok", market |-> [m EXCEPT !.airdrop_ledger = @ + amount]]

\* ------------------------------------------------------------ actions
\* last: the call just made, with its arguments and what it returned
Call(op, res, kind, amount, base, quote, info) ==
  [op |-> op, res |-> res, kind |-> kind, amount |-> amount,
   base |-> base, quote |-> quote, info |-> info]

Init ==
  /\ market = ZeroMarket
  /\ initialized = FALSE
  /\ last = Call("new", "Ok", "-", 0, 0, 0, <<>>)

InitArgs(ts, dec, cs, ss, rs) ==
  [bump |-> 1, config |-> 1, creator |-> 1, base_token_mint |-> 1,
   quote_token_mint |-> 1, quote_token_decimals |-> dec, total_supply |-> ts,
   creator_fee_share |-> cs, staking_fee_share |-> ss, referral_fee_share |-> rs]

\* create_market calls initialize on the new account, once
InitializeWith(supplies, decimals, cshares, sshares, rshares) ==
  /\ ~initialized
  /\ \E ts \in supplies, dec \in decimals,
        cs \in cshares, ss \in sshares, rs \in rshares :
       LET r == initialize(market, InitArgs(ts, dec, cs, ss, rs))
       IN /\ market' = r.market
          /\ initialized' = (r.res = "Ok")
          /\ last' = Call("initialize", r.res, "-", ts, 0, 0, <<dec, cs, ss, rs>>)

Initialize == InitializeWith(TotalSupplyInputs, DecimalsInputs, {500}, {300}, {2500})

\* what is wrong with a pair of tables, stated on the tables alone
Mismatch(bid, ask) == \E i \in 1..PRICES_LENGTH : bid[i] > ask[i]
NotIncreasing(t) == \E i \in 1..(PRICES_LENGTH - 1) : t[i + 1] <= t[i]
TooHigh(ask) == ask[PRICES_LENGTH] > MAX_PRICE

\* once the prices are set the call returns before it reads its arguments:
\* two pairs of tables then stand for all
RetryTables == {[i \in 1..PRICES_LENGTH |-> i], [i \in 1..PRICES_LENGTH |-> 0]}

CheckAndSetPrices ==
  /\ initialized
  /\ \E bid \in (IF are_prices_set(market) THEN RetryTables ELSE PriceTables),
        ask \in (IF are_prices_set(market) THEN RetryTables ELSE PriceTables) :
       LET r == check_and_set_prices(market, bid, ask)
       IN /\ market' = r.market
          /\ last' = Call("check_and_set_prices", r.res, "-", 0, 0, 0,
                          <<Mismatch(bid, ask),
                            NotIncreasing(bid) \/ NotIncreasing(ask),
                            TooHigh(ask)>>)
  /\ UNCHANGED initialized

GetQuoteAmount ==
  /\ initialized
  /\ are_prices_set(market)
  /\ \E b \in 0..MaxBaseAmount, t \in {"ExactInput", "ExactOutput"} :
       LET r == get_quote_amount(market, b, t)
       IN last' = Call("get_quote_amount", r.res, t, b, r.base, r.quote, <<>>)
  /\ UNCHANGED <<market, initialized>>

\* the swap instruction: a buy takes the base it was quoted out of the reserve
SwapBuy ==
  /\ initialized
  /\ are_prices_set(market)
  /\ \E b \in 1..MaxBaseAmount :
       LET r == get_quote_amount(market, b, "ExactOutput")
       IN /\ market' = IF r.res = "Ok"
                       THEN [market EXCEPT !.base_reserve = @ - r.base]
                       ELSE market
          /\ last' = Call("swap_buy", r.res, "ExactOutput", b, r.base, r.quote, <<>>)
  /\ UNCHANGED initialized

\* the swap instruction: a sell returns the base it was quoted to the reserve
SwapSell ==
  /\ initialized
  /\ are_prices_set(market)
  /\ \E b \in 1..MaxBaseAmount :
       LET r == get_quote_amount(market, b, "ExactInput")
       IN /\ market' = IF r.res = "Ok"
                       THEN [market EXCEPT !.base_reserve = @ + r.base]
                       ELSE market
          /\ last' = Call("swap_sell", r.res, "ExactInput", b, r.base, r.quote, <<>>)
  /\ UNCHANGED initialized

CheckThresholdAndMigrate ==
  /\ initialized
  /\ \E net \in NetSolInputs :
       LET r == check_threshold_and_migrate(market, net)
       IN /\ market' = r.market
          /\ last' = Call("check_threshold_and_migrate", r.res, "-", net, 0, 0, <<>>)
  /\ UNCHANGED initialized

MigrateToRaydium ==
  /\ initialized
  /\ LET r == migrate_to_raydium(market)
     IN /\ market' = r.market
        /\ last' = Call("migrate_to_raydium", r.res, "-", 0, 0, 0, <<>>)
  /\ UNCHANGED initialized

AddAirdrop ==
  /\ initialized
  /\ market.airdrop_ledger < MaxAirdrop
  /\ LET r == add_airdrop(market, 1)
     IN /\ market' = r.market
        /\ last' = Call("add_airdrop", r.res, "-", 1, 0, 0, <<>>)
  /\ UNCHANGED initialized

DistributeFee ==
  /\ initialized
  /\ market.fees.pending_creator_fees <= MaxPending
  /\ market.fees.pending_staking_fees <= MaxPending
  /\ \E swap_fee \in SwapFeeInputs :
       \E r \in distribute_fee(market, swap_fee) :
         /\ market' = r.market
         /\ last' = Call("distribute_fee", r.res, "-", swap_fee, 0, 0,
                         <<r.creator_fee, r.staking_fee, r.protocol_fee,
                           r.referral_fee>>)
  /\ UNCHANGED initialized

Next ==
  \/ Initialize
  \/ CheckAndSetPrices
  \/ GetQuoteAmount
  \/ SwapBuy
  \/ SwapSell
  \/ CheckThresholdAndMigrate
  \/ MigrateToRaydium

Spec == Init /\ [][Next]_vars

\* the fee distributor, over every fee configuration
InitializeFees ==
  InitializeWith({4}, {0}, CreatorShareInputs, StakingShareInputs, ReferralShareInputs)

NextFee ==
  \/ InitializeFees
  \/ DistributeFee
  \/ MigrateToRaydium
  \/ AddAirdrop

SpecFee == Init /\ [][NextFee]_vars

\* ------------------------------------------------------------ properties
Active(m) == initialized /\ are_prices_set(m) /\ m.width_scaled # 0

ValidTables(bid, ask) ==
  /\ \A i \in 1..PRICES_LENGTH : bid[i] <= ask[i]
  /\ \A i \in 1..(PRICES_LENGTH - 1) : bid[i] < bid[i + 1] /\ ask[i] < ask[i + 1]
  /\ ask[INTERVAL_NUMBER + 1] <= MAX_PRICE

Sell(m, s, b) == get_quote_amount_with_parameters(m, s, b, "ExactInput", "Down")
Buy(m, s, b) == get_quote_amount_with_parameters(m, s, b, "ExactOutput", "Up")

\* C1: on a market whose tables passed check_and_set_prices and whose width is
\* nonzero, for every supply s and amount b with s + b <= total_supply the
\* quote of selling b over [s, s+b) (bid curve, rounded down) is at most the
\* quote of buying b over the same range (ask curve, rounded up); and a sell
\* of b quoted right after a complete buy of b pays at most what the buy cost.
C1_SellAtMostBuy ==
  /\ [](Active(market) =>
          \A s \in 0..MaxBaseAmount, b \in 0..MaxBaseAmount :
            (s + b <= market.total_supply
               /\ Sell(market, s, b).res = "Ok" /\ Buy(market, s, b).res = "Ok")
            => Sell(market, s, b).quote <= Buy(market, s, b).quote)
  /\ [][(/\ last.op = "swap_buy" /\ last.res = "Ok" /\ last.base = last.amount
         /\ last'.op \in {"swap_sell", "get_quote_amount"}
         /\ last'.kind = "ExactInput" /\ last'.res = "Ok"
         /\ last'.amount = last.amount)
        => last'.quote <= last.quote]_vars

\* a sell was quoted, it pays something, and the buy of the same range costs
\* strictly more
C1_Witness ==
  /\ Active(market)
  /\ last.op = "get_quote_amount" /\ last.kind = "ExactInput" /\ last.res = "Ok"
  /\ last.quote > 0
  /\ Buy(market, circulating_supply(market) - last.amount, last.amount).res = "Ok"
  /\ Buy(market, circulating_supply(market) - last.amount, last.amount).quote
       > last.quote

\* C2: check_and_set_prices stores the tables only when bid[i] <= ask[i] at
\* every index, both tables are strictly increasing and the last ask is at
\* most MAX_PRICE; otherwise it returns the error of a condition that fails
\* and stores nothing; so whenever are_prices_set() the stored tables satisfy
\* the three conditions.
C2_CurveInvariant ==
  /\ [](are_prices_set(market)
          => ValidTables(market.bid_prices, market.ask_prices))
  /\ [][last'.op = "check_and_set_prices" =>
          /\ last'.res \in {"Ok", "PricesAlreadySet", "BidAskMismatch",
                            "DecreasingPrices", "PriceTooHigh"}
          /\ last'.res = "Ok" <=>
               (~are_prices_set(market) /\ ~last'.info[1] /\ ~last'.info[2]
                  /\ ~last'.info[3])
          /\ last'.res = "BidAskMismatch" => last'.info[1]
          /\ last'.res = "DecreasingPrices" => last'.info[2]
          /\ last'.res = "PriceTooHigh" => last'.info[3]
          /\ last'.res = "Ok" =>
               /\ are_prices_set(market')
               /\ ValidTables(market'.bid_prices, market'.ask_prices)
               /\ market' = [market EXCEPT !.bid_prices = market'.bid_prices,
                                           !.ask_prices = market'.ask_prices]
          /\ last'.res # "Ok" => market' = market]_vars

\* tables with bid below ask somewhere were stored
C2_Witness ==
  /\ last.op = "check_and_set_prices" /\ last.res = "Ok"
  /\ are_prices_set(market)
  /\ \E i \in 1..PRICES_LENGTH : market.bid_prices[i] < market.ask_prices[i]

\* C3: once check_and_set_prices has succeeded, are_prices_set() stays true,
\* the two tables never change again, and every later check_and_set_prices
\* returns PricesAlreadySet, whatever was called in between.
C3_PricesSetOnce ==
  [][/\ (last'.op = "check_and_set_prices" /\ last'.res = "Ok")
          => are_prices_set(market')
     /\ are_prices_set(market) =>
          /\ are_prices_set(market')
          /\ market'.bid_prices = market.bid_prices
          /\ market'.ask_prices = market.ask_prices
          /\ last'.op = "check_and_set_prices" => last'.res = "PricesAlreadySet"
    ]_vars

\* a second attempt, with tables that would pass, was refused after migration
C3_Witness ==
  /\ last.op = "check_and_set_prices" /\ last.res = "PricesAlreadySet"
  /\ last.info = <<FALSE, FALSE, FALSE>>
  /\ are_prices_set(market)
  /\ market.width_scaled = 0

InBand(net) == NET_SOL_MIN <= net /\ net <= NET_SOL_MAX

\* an initialized market has width_scaled = 0 only once it has migrated
Migrated(m) == initialized /\ m.width_scaled = 0 /\ m.base_reserve = 0

\* C4: after migrate_to_raydium has succeeded base_reserve and width_scaled
\* are 0 in every later state, and every later get_quote_amount, in either
\* direction and for any amount, ends with MathError.
C4_QuoteAfterMigrationIsMathError ==
  [][/\ (last'.op = "migrate_to_raydium" /\ last'.res = "Ok") => Migrated(market')
     /\ Migrated(market) =>
          /\ Migrated(market')
          /\ last'.op = "get_quote_amount" => last'.res = "MathError"
    ]_vars

\* C5: check_threshold_and_migrate(net) changes the market only when net is
\* inside the band 60000..63000 and the circulating supply has reached 80% of
\* total_supply (the integer the code computes: total_supply * 80 / 100,
\* rounded down).  Outside the band it returns NetSOLThreshold and changes
\* nothing, even with the supply condition met; inside the band and below the
\* threshold it returns Ok and changes nothing.
SupplyThresholdMet(m) ==
  100 * circulating_supply(m)
    >= m.total_supply * 80 - ((m.total_supply * 80) % 100)

C5_MigrationGuard ==
  [][last'.op = "check_threshold_and_migrate" =>
       /\ market' # market => (InBand(last'.amount) /\ SupplyThresholdMet(market))
       /\ ~InBand(last'.amount) =>
            (last'.res = "NetSOLThreshold" /\ market' = market)
       /\ (InBand(last'.amount) /\ ~SupplyThresholdMet(market)) =>
            (last'.res = "Ok" /\ market' = market)
       /\ (InBand(last'.amount) /\ SupplyThresholdMet(market)) =>
            (last'.res = "Ok" /\ Migrated(market'))
    ]_vars

\* proceeds below the band were refused on a market whose supply condition
\* holds, and the market is still active
C5_Witness ==
  /\ last.op = "check_threshold_and_migrate" /\ last.res = "NetSOLThreshold"
  /\ last.amount < NET_SOL_MIN
  /\ SupplyThresholdMet(market)
  /\ Active(market) /\ market.base_reserve > 0 /\ market.fees.referral_enabled

\* C7: initialize fails with InvalidTotalSupply when total_supply is above
\* MAX_TOTAL_SUPPLY, when total_supply / INTERVAL_NUMBER < BASE_PRECISION or
\* when total_supply is not a multiple of INTERVAL_NUMBER; whenever it fails
\* no field of the market has changed; when it succeeds base_reserve =
\* total_supply and width_scaled > 0.
InvalidTotalSupply(ts) ==
  \/ ts > MAX_TOTAL_SUPPLY
  \/ ts \div INTERVAL_NUMBER < BASE_PRECISION
  \/ ts % INTERVAL_NUMBER # 0

C7_InitializeAllOrNothing ==
  [][last'.op = "initialize" =>
       /\ InvalidTotalSupply(last'.amount) => last'.res = "InvalidTotalSupply"
       /\ last'.res # "Ok" => market' = market
       /\ last'.res = "Ok" =>
            /\ market'.base_reserve = last'.amount
            /\ market'.total_supply = last'.amount
            /\ market'.width_scaled > 0
    ]_vars

\* C8: once a market has migrated (width_scaled = 0, base_reserve = 0), a
\* further check_threshold_and_migrate with proceeds inside the band, or a
\* further migrate_to_raydium, fails.
C8_MigrationNotRepeatable ==
  [][(/\ Migrated(market)
      /\ \/ last'.op = "migrate_to_raydium"
         \/ last'.op = "check_threshold_and_migrate" /\ InBand(last'.amount))
     => last'.res # "Ok"]_vars

\* C9 as stated: after get_quote_amount(b, ExactInput) returned (b1, q_sell),
\* get_quote_amount(b1, ExactOutput) on the same market returns a quote
\* <= q_sell.
C9_BuyQuoteAtMostSellQuote ==
  (initialized /\ are_prices_set(market)) =>
    \A b \in 0..MaxBaseAmount :
      LET sell == get_quote_amount(market, b, "ExactInput")
          buy == get_quote_amount(market, sell.base, "ExactOutput")
      IN (b <= circulating_supply(market) /\ sell.res = "Ok" /\ buy.res = "Ok")
         => buy.quote <= sell.quote

\* C9 amended: when the reserve still holds b1, the quote of buying b1 is
\* >= q_sell.
C9_BuyQuoteAtLeastSellQuote ==
  /\ []((initialized /\ are_prices_set(market)) =>
         \A b \in 0..MaxBaseAmount :
           LET sell == get_quote_amount(market, b, "ExactInput")
               buy == get_quote_amount(market, sell.base, "ExactOutput")
           IN (b <= circulating_supply(market) /\ sell.res = "Ok"
                 /\ buy.res = "Ok" /\ sell.base <= market.base_reserve)
              => buy.quote >= sell.quote)
  /\ [][(/\ last.op = "get_quote_amount" /\ last.kind = "ExactInput"
         /\ last.res = "Ok" /\ last.base <= market.base_reserve
         /\ last'.op = "get_quote_amount" /\ last'.kind = "ExactOutput"
         /\ last'.res = "Ok" /\ last'.amount = last.base)
        => last'.quote >= last.quote]_vars

\* a buy was quoted for an amount the reserve holds, and selling the same
\* amount pays something, strictly less than the buy costs
C9_Witness ==
  /\ Active(market)
  /\ last.op = "get_quote_amount" /\ last.kind = "ExactOutput" /\ last.res = "Ok"
  /\ last.amount > 0 /\ last.amount <= market.base_reserve
  /\ last.amount <= circulating_supply(market)
  /\ get_quote_amount(market, last.amount, "ExactInput").res = "Ok"
  /\ get_quote_amount(market, last.amount, "ExactInput").base = last.amount
  /\ get_quote_amount(market, last.amount, "ExactInput").quote > 0
  /\ get_quote_amount(market, last.amount, "ExactInput").quote < last.quote

\* C10: on an active market get_quote_amount(b, ExactOutput) returns Ok for
\* any b, also b above base_reserve, with base_amount_swapped =
\* min(b, base_reserve) and the quote of exactly that amount; the call
\* changes no field of the market.
C10_ExhaustionIsGraceful ==
  /\ [](Active(market) =>
         \A b \in 0..MaxBaseAmount :
           LET r == get_quote_amount(market, b, "ExactOutput")
               c == get_quote_amount(market, Min(b, market.base_reserve),
                                     "ExactOutput")
           IN /\ r.res = "Ok"
              /\ r.base = Min(b, market.base_reserve)
              /\ r.quote = c.quote)
  /\ [][last'.op = "get_quote_amount" => market' = market]_vars

\* more than the reserve was asked of a curve that still holds something, and
\* the reserve was quoted at a price
C10_Witness ==
  /\ Active(market)
  /\ last.op = "get_quote_amount" /\ last.kind = "ExactOutput" /\ last.res = "Ok"
  /\ market.base_reserve > 0 /\ market.base_reserve < market.total_supply
  /\ last.amount > market.base_reserve
  /\ last.base = market.base_reserve
  /\ last.quote > 0

\* C6: when the three shares sum to at most MAX_BPS, distribute_fee(swap_fee)
\* returns creator, staking and referral fees equal to swap_fee * share /
\* MAX_BPS rounded down (referral 0 when referrals are disabled) and the
\* protocol fee as the remainder, >= 0, the four summing to swap_fee; it adds
\* the creator and staking fees to the pending accumulators and changes
\* nothing else.  1000 with creator 500, staking 300 and referrals disabled
\* gives 50, 30, 920, 0.
ShareSum(m) ==
  m.fees.creator_fee_share + m.fees.staking_fee_share + m.fees.referral_fee_share

C6_FeeSplit ==
  [][(last'.op = "distribute_fee" /\ ShareSum(market) <= MAX_BPS) =>
       LET fee == last'.amount
           creator == last'.info[1]
           staking == last'.info[2]
           protocol == last'.info[3]
           referral == last'.info[4]
       IN /\ last'.res = "Ok"
          /\ creator * MAX_BPS <= fee * market.fees.creator_fee_share
          /\ fee * market.fees.creator_fee_share < (creator + 1) * MAX_BPS
          /\ staking * MAX_BPS <= fee * market.fees.staking_fee_share
          /\ fee * market.fees.staking_fee_share < (staking + 1) * MAX_BPS
          /\ market.fees.referral_enabled =>
               /\ referral * MAX_BPS <= fee * market.fees.referral_fee_share
               /\ fee * market.fees.referral_fee_share < (referral + 1) * MAX_BPS
          /\ ~market.fees.referral_enabled => referral = 0
          /\ protocol >= 0
          /\ creator + staking + protocol + referral = fee
          /\ (/\ fee = 1000 /\ market.fees.creator_fee_share = 500
              /\ market.fees.staking_fee_share = 300
              /\ ~market.fees.referral_enabled)
             => last'.info = <<50, 30, 920, 0>>
          /\ market' = [market EXCEPT
               !.fees.pending_creator_fees = @ + creator,
               !.fees.pending_staking_fees = @ + staking]
    ]_vars

\* the example of the specification, on a market with a nonzero referral
\* share whose referrals are disabled
C6_Witness ==
  /\ last.op = "distribute_fee" /\ last.res = "Ok" /\ last.amount = 1000
  /\ market.fees.creator_fee_share = 500 /\ market.fees.staking_fee_share = 300
  /\ market.fees.referral_fee_share = 2500 /\ ~market.fees.referral_enabled
  /\ last.info = <<50, 30, 920, 0>>
  /\ market.fees.pending_creator_fees = 100
  /\ market.fees.pending_staking_fees = 60

====
